---- MODULE Spec2Model ----
(***************************************************************************)
(* Model of the incremental message-processing core of the enhanced        *)
(* Telegram news agent: the Checkpoint Store (timestamp_tracker.py), the   *)
(* Ingestion Coordinator (handle_new_message) and the Backfill Scanner     *)
(* (process_recent_messages) of agent_enhanced.py.                         *)
(***************************************************************************)
EXTENDS Integers, Sequences, FiniteSets, TLC

\* ------------------------------------------------------------------ bounds
MaxTime == 2      \* the local clock reads 1..MaxTime
MaxSkew == 1      \* the chat server's clock is 0..MaxSkew ahead of the local one
MaxMsgs == 2      \* messages posted to the chat, of any content (Spec)
MaxHist == 3      \* messages posted to the chat, link messages only (SpecBackfill)
MaxRuns == 2      \* starts of the agent process
MaxWall == 3      \* wall-clock readings 1..MaxWall of the tracker's inputs
Limit == 2        \* the backfill limit (limit=200 in main, scaled down)
MaxReplayed == 1  \* messages posted to the chat when updates are redelivered (SpecReplay)
MaxPending == 1   \* live events waiting for their handler (SpecReplay)
MaxEntries == 3   \* entries in the store when the basic agent takes a message (SpecBasic)

\* ------------------------------------------------------------ value domains
None == <<>>
Some(x) == <<x>>

TELEGRAM_CHAT_ID == "me"
\* chat_id arguments of the tracker; "" stands for a falsy one (None).
ChatIds == {"me", "12345", ""}

\* The texts a message can carry, by what the coordinator reads of them: the
\* URL tokens in first-seen order and whether text.strip() is non-empty.
Contents ==
    { [urls |-> <<>>, body |-> FALSE],
      [urls |-> <<>>, body |-> TRUE],
      [urls |-> <<"a">>, body |-> TRUE],
      [urls |-> <<"a", "a">>, body |-> TRUE] }

LinkContents == { [urls |-> <<"a">>, body |-> TRUE] }

\* An aware UTC datetime, as Telethon's message.date and datetime.now(timezone.utc).
Utc(t) == [wall |-> t, tz |-> Some(0)]

VARIABLES
    now,                 \* the local clock
    skew,                \* server clock minus local clock
    history,             \* the chat's messages, oldest first
    timestamp_data,      \* data/last_check.json: the object last written, key -> ISO string
    timestamp_file,      \* what that file holds now: "ok" or a kind of damage
    json_file,           \* publications/news_database.json
    pc,                  \* position of main(): down | scan | process | live
    runs,                \* starts of the process so far
    messages_to_process, \* the backfill's collected batch
    processed_count,     \* the backfill's counter
    pending,             \* live events whose handler has not yet run
    crashed,             \* messages whose handler died between save and checkpoint
    last,                \* the latest run of handle_new_message
    scan,                \* the current or latest backfill scan
    given,               \* tracker key -> the timestamp last handed to update
    prior,               \* the key whose stored instant the latest tracker call replaced by an earlier one
    llm_processor,       \* the SimpleLLMProcessor object: its keys and provider
    call                 \* the latest call of one of the helper functions

vars == <<now, skew, history, timestamp_data, timestamp_file, json_file, pc, runs,
          messages_to_process, processed_count, pending, crashed, last, scan, given,
          prior, llm_processor, call>>

units == <<prior, llm_processor, call>>

clock == <<now, skew>>
process == <<pc, runs, messages_to_process, processed_count, pending>>

\* --------------------------------------------------------- Checkpoint Store
\* datetime.isoformat(): the wall time and the UTC offset suffix.
isoformat(d) ==
    [wall |-> d.wall,
     suffix |-> IF d.tz = None THEN "" ELSE IF d.tz[1] = 0 THEN "+00:00" ELSE "+01:00"]

\* Values a damaged file can hold for a key: a string that is no ISO date, and
\* a value that is no string (a number other than 0, a list).
Unparsable == [wall |-> 0, suffix |-> "not-a-date"]
NotAString == [wall |-> 0, suffix |-> "not-a-string"]

\* The states of the backing file: the JSON object last written; no file; a
\* file open() refuses; text json.load rejects; valid JSON that is no object.
FileStates == {"ok", "missing", "unreadable", "corrupt", "not_an_object"}

\* datetime.fromisoformat(): None stands for the ValueError branch.
fromisoformat(s) ==
    CASE s.suffix = "" -> Some([wall |-> s.wall, tz |-> None])
      [] s.suffix = "+00:00" -> Some([wall |-> s.wall, tz |-> Some(0)])
      [] s.suffix = "+01:00" -> Some([wall |-> s.wall, tz |-> Some(1)])
      [] OTHER -> None

\* replace(tzinfo=timezone.utc) on a naive datetime.
AsUtc(d) == IF d.tz = None THEN [d EXCEPT !.tz = Some(0)] ELSE d

\* The instant an aware datetime denotes (comparison of aware datetimes).
Instant(d) == d.wall - d.tz[1]

\* key = str(chat_id) if chat_id else "global"
KeyOf(chat_id) == IF chat_id = "" THEN "global" ELSE chat_id

Keys == {KeyOf(c) : c \in ChatIds}

\* reset_timestamps(): chat_id is None, the file becomes {}.
reset_all_timestamps == [k \in {} |-> isoformat(Utc(0))]

\* _load_timestamp_data: {} when the file does not exist and after any
\* exception of open or json.load; else whatever json.load returned.
load_timestamp_data(file, data) == IF file = "ok" THEN data ELSE reset_all_timestamps

get_last_check_timestamp(data, chat_id) ==
    IF KeyOf(chat_id) \in DOMAIN data THEN fromisoformat(data[KeyOf(chat_id)]) ELSE None

\* Lines 55-64 guard fromisoformat with `except ValueError` only: data.get on a
\* JSON value that is no object raises AttributeError, and fromisoformat on a
\* value that is no string raises TypeError.
get_last_check_timestamp_raises(file, data, chat_id) ==
    \/ file = "not_an_object"
    \/ /\ file = "ok"
       /\ KeyOf(chat_id) \in DOMAIN data
       /\ data[KeyOf(chat_id)] = NotAString

\* Mutant: a timestamp older than the stored one is not written.
update_last_check_timestamp_newest(data, chat_id, timestamp) ==
    LET t == IF timestamp = None THEN Utc(now) ELSE timestamp[1]
        old == get_last_check_timestamp(data, chat_id)
        keep == old # None /\ Instant(AsUtc(old[1])) > Instant(AsUtc(t)) IN
    [k \in DOMAIN data \cup {KeyOf(chat_id)} |->
        IF k = KeyOf(chat_id) /\ ~keep THEN isoformat(AsUtc(t)) ELSE data[k]]

\* timestamp None stands for the default argument: datetime.now(timezone.utc).
update_last_check_timestamp(data, chat_id, timestamp) ==
    LET t == IF timestamp = None THEN Utc(now) ELSE timestamp[1] IN
    [k \in DOMAIN data \cup {KeyOf(chat_id)} |->
        IF k = KeyOf(chat_id) THEN isoformat(AsUtc(t)) ELSE data[k]]

\* Mutant: resetting one chat empties the file.
reset_timestamps_every(data, chat_id) == [k \in {} |-> data[k]]

\* reset_timestamps(chat_id) for a chat_id that is not None.
reset_timestamps(data, chat_id) ==
    [k \in DOMAIN data \ {chat_id} |-> data[k]]

\* Mutant: the comparison admits the checkpoint's own instant.
should_process_message_inclusive(data, message_date, chat_id) ==
    LET last_check == get_last_check_timestamp(data, chat_id) IN
    IF last_check = None THEN TRUE
    ELSE Instant(AsUtc(message_date)) >= Instant(AsUtc(last_check[1]))

should_process_message(data, message_date, chat_id) ==
    LET last_check == get_last_check_timestamp(data, chat_id) IN
    IF last_check = None THEN TRUE
    ELSE Instant(AsUtc(message_date)) > Instant(AsUtc(last_check[1]))

\* Line 119 is outside any try: what get_last_check_timestamp raises,
\* should_process_message raises.
should_process_message_raises(file, data, chat_id) ==
    get_last_check_timestamp_raises(file, data, chat_id)

\* The chat's checkpoint as an instant; 0 when absent (instants are >= 1).
Checkpoint(data) ==
    LET c == get_last_check_timestamp(data, TELEGRAM_CHAT_ID) IN
    IF c = None THEN 0 ELSE Instant(AsUtc(c[1]))

\* -------------------------------------------------------- Publication Store
\* A missing file reads as [], and so does one json.load rejects
\* (json.JSONDecodeError).
load_existing_publications(f) == IF f.status = "valid" THEN f.pubs ELSE <<>>

\* Lines 101-105 catch json.JSONDecodeError and FileNotFoundError only: a file
\* whose bytes are not UTF-8 makes the read raise UnicodeDecodeError.
load_existing_publications_raises(f) == f.status = "undecodable"

\* What a failed or successful open(JSON_FILE, 'w') + json.dump leaves on disk:
\* "ok" wrote everything; "unwritable" failed in open and left the file alone;
\* "truncated" failed in json.dump after open(.., 'w') had emptied the file,
\* leaving a piece of JSON text; "garbled" failed the same way with the piece
\* ending inside a multi-byte character (ensure_ascii=False, UTF-8).
DiskOutcomes == {"ok", "unwritable", "truncated", "garbled"}

FileAfterSave(f, publications_list, disk) ==
    CASE disk = "ok" -> [status |-> "valid", pubs |-> publications_list]
      [] disk = "unwritable" -> f
      [] disk = "truncated" -> [status |-> "corrupt", pubs |-> <<>>]
      [] OTHER -> [status |-> "undecodable", pubs |-> <<>>]

save_publications(disk) == disk = "ok"

\* ------------------------------------------------------ Article Resolver etc.
\* extract_article_content never raises: a failed fetch gives the 'error' record.
extract_article_content(url, fetched, id) ==
    [kind |-> "article", url |-> url,
     method |-> IF fetched THEN "web_scraping" ELSE "error", msg |-> id]

\* One record per URL token, in order.
process_urls_in_message(m, fetch) ==
    [i \in 1..Len(m.urls) |-> extract_article_content(m.urls[i], fetch[i], m.id)]

\* Mutant: no analysis record for a message in which URLs were found.
process_message_content_unless_urls(m, llm) ==
    IF ~m.body \/ Len(m.urls) > 0 THEN None
    ELSE Some([kind |-> "analysis", url |-> "",
               method |-> IF llm THEN "llm" ELSE "fallback", msg |-> m.id])

\* None when message_text.strip() is empty, else one analysis record: the
\* enrichment service's when the call succeeded, else the fallback one.
process_message_content(m, llm) ==
    IF ~m.body THEN None
    ELSE Some([kind |-> "analysis", url |-> "",
               method |-> IF llm THEN "llm" ELSE "fallback", msg |-> m.id])

FetchOutcomes(m) == [1..Len(m.urls) -> BOOLEAN]

\* create_odt_document for each article of the message: TRUE when the file
\* was written, FALSE when the call raised (odt_writer.py line 110).
OdtOutcomes(m, may_fail) ==
    IF may_fail THEN [1..Len(m.urls) -> BOOLEAN] ELSE {[i \in 1..Len(m.urls) |-> TRUE]}

odt_failed(odt) == \E i \in DOMAIN odt : ~odt[i]

\* Mutant: the call of create_odt_document stands outside any try of its own.
odt_error_escapes_uncaught(odt) == odt_failed(odt)

\* Lines 332-337: the try around create_odt_document catches every Exception,
\* so none reaches the handler's outer except.
odt_error_escapes(odt) == FALSE

\* -------------------------------------------------- Ingestion Coordinator
\* Mutant: the new records are put in front of the loaded ones.
Publications_Prepend(f, m, fetch, llm) ==
    process_urls_in_message(m, fetch) \o process_message_content(m, llm)
        \o load_existing_publications(f)

\* Mutant: the list starts empty instead of from the loaded store.
Publications_Overwrite(f, m, fetch, llm) ==
    process_urls_in_message(m, fetch) \o process_message_content(m, llm)

\* The publications list of lines 315-347 at the time of the save.
Publications(f, m, fetch, llm) ==
    load_existing_publications(f) \o process_urls_in_message(m, fetch)
        \o process_message_content(m, llm)

\* Mutant: the store is saved after every accepted message.
new_items_added_always(m, fetch, llm) == TRUE

new_items_added(m, fetch, llm) ==
    Len(process_urls_in_message(m, fetch)) > 0 \/ process_message_content(m, llm) # None

\* Lines 350-353: the file after the save step of an accepted message.
FileAfterHandle(f, m, fetch, llm, disk) ==
    IF new_items_added(m, fetch, llm)
    THEN FileAfterSave(f, Publications(f, m, fetch, llm), disk)
    ELSE f

\* Mutant: the handler leaves the checkpoint where it found it.
CheckpointAfterHandle_Unmoved(data, m, saved) == data

\* Line 356: executed whatever save_publications returned.
CheckpointAfterHandle(data, m, saved) ==
    update_last_check_timestamp(data, TELEGRAM_CHAT_ID, Some(Utc(m.date)))

Wrote(m, fetch, llm, disk) ==
    IF ~new_items_added(m, fetch, llm) THEN "none"
    ELSE IF save_publications(disk) THEN "ok" ELSE "fail"

NoRun ==
    [id |-> 0, date |-> 0, run |-> 0, outcome |-> "none", wrote |-> "none",
     cp_before |-> 0, cp_after |-> 0, articles |-> 0, redo |-> FALSE,
     resolver |-> 0, classifier |-> FALSE, stage |-> "none", odt_failed |-> FALSE]

\* Mutant: the filter is asked under the raw chat id, not the tracking key.
Accepts_WrongKey(m) == should_process_message(timestamp_data, Utc(m.date), "")

\* Lines 307-310: the filter, asked under the tracking key.
Accepts(m) == should_process_message(timestamp_data, Utc(m.date), TELEGRAM_CHAT_ID)

\* handle_new_message(event) for message m. raises: an unexpected exception
\* before the filter (await message.get_sender()); dies: the process is killed
\* between line 353 and line 356. resolver counts the calls of
\* extract_article_content, classifier tells whether process_message_content
\* was called, stage names the step an exception came from.
handle_new_message(m, fetch, llm, disk, raises, dies, odt) ==
    LET accept == Accepts(m)
        f2 == FileAfterHandle(json_file, m, fetch, llm, disk)
        d2 == CheckpointAfterHandle(timestamp_data, m, save_publications(disk))
        rec == [id |-> m.id, date |-> m.date, run |-> runs, outcome |-> "none",
                wrote |-> "none", cp_before |-> Checkpoint(timestamp_data),
                cp_after |-> Checkpoint(timestamp_data),
                articles |-> 0,
                redo |-> m.id \in crashed,
                resolver |-> 0, classifier |-> FALSE, stage |-> "none",
                odt_failed |-> FALSE]
        ran == [rec EXCEPT !.resolver = Len(m.urls), !.classifier = TRUE,
                           !.odt_failed = odt_failed(odt)]
    IN  IF raises
        THEN /\ UNCHANGED <<json_file, timestamp_data, crashed>>
             /\ last' = [rec EXCEPT !.outcome = "failed", !.stage = "sender"]
        ELSE IF should_process_message_raises(timestamp_file, timestamp_data,
                                              TELEGRAM_CHAT_ID)
        THEN /\ UNCHANGED <<json_file, timestamp_data, crashed>>
             /\ last' = [rec EXCEPT !.outcome = "failed", !.stage = "filter"]
        ELSE IF ~accept
        THEN /\ UNCHANGED <<json_file, timestamp_data, crashed>>
             /\ last' = [rec EXCEPT !.outcome = "filtered"]
        ELSE IF load_existing_publications_raises(json_file)
        THEN /\ UNCHANGED <<json_file, timestamp_data, crashed>>
             /\ last' = [rec EXCEPT !.outcome = "failed", !.stage = "load"]
        ELSE IF odt_error_escapes(odt)
        THEN /\ UNCHANGED <<json_file, timestamp_data, crashed>>
             /\ last' = [rec EXCEPT !.outcome = "failed", !.stage = "odt",
                                    !.resolver = Len(m.urls),
                                    !.odt_failed = TRUE]
        ELSE IF dies
        THEN /\ json_file' = f2
             /\ UNCHANGED timestamp_data
             /\ crashed' = IF Wrote(m, fetch, llm, disk) = "ok"
                           THEN crashed \cup {m.id} ELSE crashed
             /\ last' = [ran EXCEPT !.outcome = "died",
                                    !.wrote = Wrote(m, fetch, llm, disk)]
        ELSE /\ json_file' = f2
             /\ timestamp_data' = d2
             /\ UNCHANGED crashed
             /\ last' = [ran EXCEPT !.outcome = "accepted",
                                    !.wrote = Wrote(m, fetch, llm, disk),
                                    !.cp_after = Checkpoint(d2),
                                    !.articles =
                                        IF Wrote(m, fetch, llm, disk) = "ok"
                                        THEN Len(process_urls_in_message(m, fetch))
                                        ELSE 0]

\* ------------------------------------------------------- Backfill Scanner
Min(a, b) == IF a < b THEN a ELSE b

Reverse(s) == [i \in 1..Len(s) |-> s[Len(s) - i + 1]]

\* client.iter_messages(entity, limit=limit): the newest `limit`, newest first.
iter_messages(h, limit) == [i \in 1..Min(limit, Len(h)) |-> h[Len(h) - i + 1]]

\* Mutant: the collected list is not reversed.
Collect_NoReverse(data, h, limit) ==
    SelectSeq(iter_messages(h, limit),
              LAMBDA m : should_process_message(data, Utc(m.date), TELEGRAM_CHAT_ID))

\* Mutant: messages carrying the checkpoint's own instant are collected too.
Collect_Inclusive(data, h, limit) ==
    Reverse(SelectSeq(iter_messages(h, limit),
                      LAMBDA m : should_process_message_inclusive(
                                     data, Utc(m.date), TELEGRAM_CHAT_ID)))

\* Lines 426-441: filter against the stored checkpoint, then reverse.
Collect(data, h, limit) ==
    Reverse(SelectSeq(iter_messages(h, limit),
                      LAMBDA m : should_process_message(data, Utc(m.date), TELEGRAM_CHAT_ID)))

\* Lines 466-468: processed_count >= 0 always holds, and the default
\* timestamp argument is the current time.
EndOfScanTouch(data, count) ==
    IF count >= 0 THEN update_last_check_timestamp(data, TELEGRAM_CHAT_ID, None)
    ELSE data

NoScan ==
    [state |-> "idle", cp0 |-> 0, hlen |-> 0, fed |-> <<>>, ids |-> <<>>,
     clean |-> TRUE, pre_touch |-> 0, end_cp |-> 0]

NoPrior == [key |-> "", later |-> FALSE]

\* SimpleLLMProcessor.__init__ (lines 16-19).
SimpleLLMProcessor == [openai_key |-> None, anthropic_key |-> None, provider |-> None]

NoCall == [fn |-> "none"]

\* ------------------------------------------------------------------ actions
Init ==
    /\ now = 1
    /\ skew \in 0..MaxSkew
    /\ history = <<>>
    /\ timestamp_data = reset_all_timestamps
    /\ timestamp_file = "ok"
    /\ json_file = [status |-> "missing", pubs |-> <<>>]
    /\ pc = "down"
    /\ runs = 0
    /\ messages_to_process = <<>>
    /\ processed_count = 0
    /\ pending = <<>>
    /\ crashed = {}
    /\ last = NoRun
    /\ scan = NoScan
    /\ given = [k \in Keys |-> None]
    /\ prior = NoPrior
    /\ llm_processor = SimpleLLMProcessor
    /\ call = NoCall

\* The local clock advances.
Tick ==
    /\ now < MaxTime
    /\ now' = now + 1
    /\ UNCHANGED <<skew, history, timestamp_data, json_file, process,
                   crashed, last, scan, given, timestamp_file, units>>

\* Somebody posts a message; the server stamps it. A registered live handler
\* (lines 522-524) gets the event.
PostMessage(contents, max) ==
    /\ Len(history) < max
    /\ \E c \in contents :
        LET m == [id |-> Len(history) + 1, date |-> now + skew,
                  urls |-> c.urls, body |-> c.body] IN
        /\ history' = Append(history, m)
        /\ pending' = IF pc = "live" THEN Append(pending, m) ELSE pending
    /\ UNCHANGED <<clock, timestamp_data, json_file, pc, runs,
                   messages_to_process, processed_count, crashed, last, scan, given, timestamp_file, units>>

Post == PostMessage(Contents, MaxMsgs)

PostLink == PostMessage(LinkContents, MaxHist)

\* main() up to the call of process_recent_messages.
Start ==
    /\ pc = "down"
    /\ runs < MaxRuns
    /\ pc' = "scan"
    /\ runs' = runs + 1
    /\ UNCHANGED <<clock, history, timestamp_data, json_file,
                   messages_to_process, processed_count, pending,
                   crashed, last, scan, given, timestamp_file, units>>

\* The process is stopped or killed between two steps.
Stop ==
    /\ pc # "down"
    /\ pc' = "down"
    /\ messages_to_process' = <<>>
    /\ processed_count' = 0
    /\ pending' = <<>>
    /\ UNCHANGED <<clock, history, timestamp_data, json_file, runs,
                   crashed, last, scan, given, timestamp_file, units>>

\* process_recent_messages, lines 410-443: page the history and collect.
ScanCollect ==
    /\ pc = "scan"
    /\ messages_to_process' = Collect(timestamp_data, history, Limit)
    /\ processed_count' = 0
    /\ pc' = "process"
    /\ scan' = [NoScan EXCEPT !.state = "collected",
                              !.cp0 = Checkpoint(timestamp_data),
                              !.hlen = Len(history)]
    /\ UNCHANGED <<clock, history, timestamp_data, json_file, runs,
                   pending, crashed, last, given, timestamp_file, units>>

\* iter_messages raises while paging: lines 460-468 run, nothing was processed.
ScanInterrupted ==
    /\ pc = "scan"
    /\ timestamp_data' = EndOfScanTouch(timestamp_data, 0)
    /\ messages_to_process' = <<>>
    /\ processed_count' = 0
    /\ pc' = "live"
    /\ scan' = [NoScan EXCEPT !.state = "interrupted",
                              !.cp0 = Checkpoint(timestamp_data),
                              !.hlen = Len(history),
                              !.pre_touch = Checkpoint(timestamp_data),
                              !.end_cp = Checkpoint(timestamp_data')]
    /\ UNCHANGED <<clock, history, json_file, runs, pending, crashed, last, given, timestamp_file, units>>

\* Lines 445-458: one collected message through the coordinator; odt_may_fail
\* tells whether the publications directory can refuse an ODT file.
ScanProcessOne(odt_may_fail) ==
    /\ pc = "process"
    /\ messages_to_process # <<>>
    /\ LET m == Head(messages_to_process) IN
       /\ \E fetch \in FetchOutcomes(m), llm \in BOOLEAN, disk \in DiskOutcomes,
             raises \in BOOLEAN, odt \in OdtOutcomes(m, odt_may_fail) :
            handle_new_message(m, fetch, llm, disk, raises, FALSE, odt)
       /\ scan' = [scan EXCEPT !.fed = Append(@, m.date),
                               !.ids = Append(@, m.id),
                               !.clean = @ /\ last'.outcome # "failed"
                                           /\ last'.wrote # "fail"]
    /\ messages_to_process' = Tail(messages_to_process)
    /\ processed_count' = processed_count + 1
    /\ UNCHANGED <<clock, history, pc, runs, pending, given, timestamp_file, units>>

\* Mutant: an exception of the handler leaves the loop, as it would without
\* the try of lines 446-458.
ScanProcess_Abort ==
    /\ pc = "process"
    /\ messages_to_process # <<>>
    /\ LET m == Head(messages_to_process) IN
       /\ \E fetch \in FetchOutcomes(m), llm \in BOOLEAN, disk \in DiskOutcomes,
             raises \in BOOLEAN, odt \in OdtOutcomes(m, FALSE) :
            handle_new_message(m, fetch, llm, disk, raises, FALSE, odt)
       /\ scan' = [scan EXCEPT !.fed = Append(@, m.date),
                               !.ids = Append(@, m.id),
                               !.clean = @ /\ last'.outcome # "failed"
                                           /\ last'.wrote # "fail"]
    /\ messages_to_process' = IF last'.outcome = "failed" THEN <<>>
                              ELSE Tail(messages_to_process)
    /\ processed_count' = processed_count + 1
    /\ UNCHANGED <<clock, history, pc, runs, pending, given, timestamp_file, units>>

ScanProcess == ScanProcessOne(FALSE)

\* Lines 464-468: the end of the scan; main registers the live handler.
ScanFinish ==
    /\ pc = "process"
    /\ messages_to_process = <<>>
    /\ timestamp_data' = EndOfScanTouch(timestamp_data, processed_count)
    /\ pc' = "live"
    /\ scan' = [scan EXCEPT !.state = "completed",
                            !.pre_touch = Checkpoint(timestamp_data),
                            !.end_cp = Checkpoint(timestamp_data')]
    /\ UNCHANGED <<clock, history, json_file, runs, messages_to_process,
                   processed_count, pending, crashed, last, given, timestamp_file, units>>

RemoveAt(s, i) == [j \in 1..(Len(s) - 1) |-> IF j < i THEN s[j] ELSE s[j + 1]]

\* A live event's handler runs (lines 522-524); handlers of pending events
\* resume after `await message.get_sender()` in any order.
LiveHandleOne(odt_may_fail) ==
    /\ pc = "live"
    /\ \E i \in 1..Len(pending) :
        /\ \E fetch \in FetchOutcomes(pending[i]), llm \in BOOLEAN,
              disk \in DiskOutcomes, raises \in BOOLEAN,
              odt \in OdtOutcomes(pending[i], odt_may_fail) :
             handle_new_message(pending[i], fetch, llm, disk, raises, FALSE, odt)
        /\ pending' = RemoveAt(pending, i)
    /\ UNCHANGED <<clock, history, pc, runs, messages_to_process,
                   processed_count, scan, given, timestamp_file, units>>

LiveHandle == LiveHandleOne(FALSE)

\* The process dies inside the handler of an accepted message, after the
\* save of line 352 succeeded and before the checkpoint update of line 356.
DieInHandler ==
    /\ \/ pc = "process" /\ messages_to_process # <<>>
       \/ pc = "live" /\ pending # <<>>
    /\ LET m == IF pc = "process" THEN Head(messages_to_process) ELSE Head(pending) IN
       /\ Accepts(m)
       /\ ~load_existing_publications_raises(json_file)
       /\ \E fetch \in FetchOutcomes(m), llm \in BOOLEAN, odt \in OdtOutcomes(m, FALSE) :
            handle_new_message(m, fetch, llm, "ok", FALSE, TRUE, odt)
    /\ pc' = "down"
    /\ messages_to_process' = <<>>
    /\ processed_count' = 0
    /\ pending' = <<>>
    /\ UNCHANGED <<clock, history, runs, scan, given, timestamp_file, units>>

Agent ==
    \/ Tick
    \/ Start
    \/ Stop
    \/ ScanCollect
    \/ ScanInterrupted
    \/ ScanProcess
    \/ ScanFinish
    \/ LiveHandle
    \/ DieInHandler

Next == Post \/ Agent

Spec == Init /\ [][Next]_vars

NextBackfill == PostLink \/ Agent

SpecBackfill == Init /\ [][NextBackfill]_vars

\* ------------------------------------------- updates delivered more than once
PostReplayed == PostMessage(Contents, MaxReplayed)

\* The registered handler (lines 522-524) is called once per update received;
\* the server hands over an update of the chat a second time.
Redeliver ==
    /\ pc = "live"
    /\ Len(pending) < MaxPending
    /\ \E i \in 1..Len(history) : pending' = Append(pending, history[i])
    /\ UNCHANGED <<clock, history, timestamp_data, json_file, pc, runs,
                   messages_to_process, processed_count, crashed, last, scan, given, timestamp_file, units>>

NextReplay == PostReplayed \/ Redeliver \/ Agent

SpecReplay == Init /\ [][NextReplay]_vars

\* ------------------------------------ ODT files that cannot always be written
ScanProcessOdt == ScanProcessOne(TRUE)

LiveHandleOdt == LiveHandleOne(TRUE)

NextOdt ==
    \/ PostReplayed
    \/ Tick
    \/ Start
    \/ Stop
    \/ ScanCollect
    \/ ScanInterrupted
    \/ ScanProcessOdt
    \/ ScanFinish
    \/ LiveHandleOdt
    \/ DieInHandler

SpecOdt == Init /\ [][NextOdt]_vars

\* --------------------------------------------- the tracker used on its own
\* The timestamps a caller can hand to the tracker: naive, UTC and +01:00.
Datetimes == [wall : 1..MaxWall, tz : {None, Some(0), Some(1)}]

\* The instant the file holds for the key when an update starts, None when it
\* holds none it can read.
StoredInstant(file, data, chat_id) ==
    LET d == get_last_check_timestamp(load_timestamp_data(file, data), chat_id) IN
    IF d = None THEN None ELSE Some(Instant(AsUtc(d[1])))

\* tracker.update_last_check_timestamp(chat_id, timestamp), as test_enhanced.py
\* calls it; ts = None is the call without a timestamp.
\* On a file that is no JSON object, `data[key] = ...` raises and nothing is
\* written; on any other damaged file the update starts from {} and rewrites it.
TrackerUpdateOf(c, ts) ==
    /\ timestamp_file # "not_an_object"
    /\ timestamp_data' = update_last_check_timestamp(
                             load_timestamp_data(timestamp_file, timestamp_data), c, ts)
    /\ given' = [k \in Keys |->
                    IF k = KeyOf(c) THEN (IF ts = None THEN Some(Utc(now)) ELSE ts)
                    ELSE IF timestamp_file = "ok" THEN given[k] ELSE None]
    /\ prior' = LET old == StoredInstant(timestamp_file, timestamp_data, c) IN
                 IF old # None /\ old[1] > Instant(AsUtc(given'[KeyOf(c)][1]))
                 THEN [key |-> KeyOf(c), later |-> TRUE]
                 ELSE NoPrior
    /\ timestamp_file' = "ok"
    /\ UNCHANGED <<clock, history, json_file, process, crashed, last, scan,
                   llm_processor, call>>

TrackerUpdate ==
    \E c \in ChatIds, ts \in {None} \cup {Some(d) : d \in Datetimes} :
        TrackerUpdateOf(c, ts)

\* tracker.reset_timestamps(chat_id)
\* (on a damaged file the key is not found and nothing is written)
TrackerResetOf(c) ==
    /\ timestamp_file = "ok"
    /\ timestamp_data' = reset_timestamps(timestamp_data, c)
    /\ given' = [given EXCEPT ![c] = None]
    /\ prior' = NoPrior
    /\ UNCHANGED <<clock, history, json_file, process, crashed, last, scan,
                   timestamp_file, llm_processor, call>>

TrackerReset == \E c \in ChatIds \ {""} : TrackerResetOf(c)

\* tracker.reset_timestamps()
TrackerResetAll ==
    /\ timestamp_data' = reset_all_timestamps
    /\ timestamp_file' = "ok"
    /\ given' = [k \in Keys |-> None]
    /\ prior' = NoPrior
    /\ UNCHANGED <<clock, history, json_file, process, crashed, last, scan,
                   llm_processor, call>>

\* The backing file is deleted, made unreadable, or overwritten from outside
\* the program with something that is no JSON object of ISO strings.
TrackerFileDamaged ==
    /\ timestamp_file = "ok"
    /\ \/ /\ timestamp_file' \in FileStates \ {"ok"}
          /\ UNCHANGED <<timestamp_data, given>>
       \/ /\ \E c \in ChatIds, v \in {Unparsable, NotAString} :
              /\ timestamp_data' =
                    [k \in DOMAIN timestamp_data \cup {KeyOf(c)} |->
                        IF k = KeyOf(c) THEN v ELSE timestamp_data[k]]
              /\ given' = [given EXCEPT ![KeyOf(c)] = None]
          /\ UNCHANGED timestamp_file
    /\ prior' = NoPrior
    /\ UNCHANGED <<clock, history, json_file, process, crashed, last, scan,
                   llm_processor, call>>

NextTracker ==
    Tick \/ TrackerUpdate \/ TrackerReset \/ TrackerResetAll \/ TrackerFileDamaged

SpecTracker == Init /\ [][NextTracker]_vars

\* ------------------------------------- the helper functions called on their own
\* The variables of the agent proper, which a helper call leaves alone.
agent == <<now, skew, history, timestamp_data, timestamp_file, json_file, pc, runs,
           messages_to_process, processed_count, pending, crashed, last, scan, given,
           prior>>

\* The lengths around a limit that a text can have.
Lengths(limit) == {0, 1, limit - 1, limit, limit + 1}

\* The enrichment service's answer to one request: "error" is a non-200 status
\* or an exception of requests.post, "empty" a 200 with blank content,
\* "not_json" text json.loads rejects, "not_object" JSON that is no object
\* (a list, a string, a number, null), "object" a JSON object.
Replies == {"error", "empty", "not_json", "not_object", "object"}

\* _call_llm: "" unless the provider answered 200 with content.
call_llm(proc, reply) ==
    IF proc.provider = None \/ reply \in {"error", "empty"} THEN "" ELSE reply

\* is_available (lines 58-60).
is_available(proc) ==
    proc.provider # None /\ (proc.openai_key # None \/ proc.anthropic_key # None)

\* --------------------------------------------------------------- URL Extractor
\* A text is a sequence of symbols: the two scheme prefixes, characters of
\* each class the pattern of line 125 tells apart, and " " for whitespace.
Schemes == {"http://", "https://"}

WordChars == {"a", "b", "1", "_"}                    \* \w
HostChars == WordChars \cup {"-", "."}               \* [-\w.]
PortChars == {":", "1"}                              \* [:\d]
PathChars == WordChars \cup {"/", "."}               \* [\w/_.]
QueryChars == WordChars \cup {"&", "=", "%", "."}    \* [\w&=%.]
FragmentChars == WordChars \cup {"."}                \* [\w.]

\* The number of symbols of s from position i on that are in class.
RECURSIVE Run(_, _, _)
Run(s, i, class) ==
    IF i <= Len(s) /\ s[i] \in class THEN 1 + Run(s, i + 1, class) ELSE 0

At(s, i) == IF i <= Len(s) THEN s[i] ELSE ""

\* The pattern tried at position i, where a scheme stands: the position of the
\* last symbol matched, 0 when there is no match. Every part after the host is
\* optional, so the greedy match is the match.
MatchEnd(s, i) ==
    LET host == Run(s, i + 1, HostChars)
        e1 == i + host + Run(s, i + host + 1, PortChars)
        e2 == e1 + 1 + Run(s, e1 + 2, PathChars)
        e3 == IF At(s, e2 + 1) = "?" THEN e2 + 1 + Run(s, e2 + 2, QueryChars) ELSE e2
        e4 == IF At(s, e3 + 1) = "#" THEN e3 + 1 + Run(s, e3 + 2, FragmentChars) ELSE e3
    IN  IF host = 0 THEN 0
        ELSE IF At(s, e1 + 1) = "/" THEN e4
        ELSE e1

\* re.findall(url_pattern, text): the non-overlapping matches, left to right.
RECURSIVE findall(_, _)
findall(s, i) ==
    IF i > Len(s) THEN <<>>
    ELSE IF s[i] \in Schemes /\ MatchEnd(s, i) > 0
         THEN <<SubSeq(s, i, MatchEnd(s, i))>> \o findall(s, MatchEnd(s, i) + 1)
         ELSE findall(s, i + 1)

\* extract_urls_from_text(text), lines 119-134; None is a missing text.
extract_urls_from_text(text) ==
    IF text = None \/ text[1] = <<>> THEN <<>> ELSE findall(text[1], 1)

\* Texts handed to the extractor: missing, empty, without a URL, with one URL
\* twice, with two URLs of which one has a port, a query and a fragment, and
\* with a URL whose path holds a hyphen.
Texts ==
    {None, Some(<<>>), Some(<<"a", " ", "b", ".">>),
     Some(<<"http://">>),
     Some(<<"a", " ", "http://", "a", "/", "b", " ", "a", " ", "http://", "a", "/", "b">>),
     Some(<<"https://", "b", ".", "a", ":", "1", "/", "a", "?", "a", "=", "1", "#", "a",
            " ", "http://", "a">>),
     Some(<<"https://", "a", "/", "a", "-", "b", " ", "http://", "b">>)}

CallExtractUrls ==
    /\ \E text \in Texts :
         call' = [fn |-> "extract_urls_from_text", text |-> text,
                  result |-> extract_urls_from_text(text)]
    /\ UNCHANGED <<agent, llm_processor>>

\* ----------------------------------------------------------- provider selection
\* The key arguments main() can pass: nothing, a blank, the string "None",
\* the placeholder of the configuration template, a key; for OpenAI also the
\* value agent_enhanced.py line 46 holds when API.txt sets no key.
OpenAIKeys ==
    {None, Some(""), Some("None"), Some("YOUR_OPENAI_API_KEY_HERE"),
     Some("OPENAI_API_KEY_PLACEHOLDER"), Some("sk-openai")}

AnthropicKeys ==
    {None, Some(""), Some("None"), Some("YOUR_ANTHROPIC_API_KEY_HERE"), Some("sk-ant")}

\* LLM_PROVIDER as read from API.txt: any string.
Preferences == {"auto", "openai", "anthropic", "claude"}

\* Lines 34-38: the filter on the key arguments.
accepted_key(key, placeholder) ==
    key # None /\ key[1] \notin {placeholder, "", "None"}

\* load_api_keys_direct (lines 21-56): the object after the call.
load_api_keys_direct(proc, openai_key, anthropic_key, provider_preference) ==
    LET ok == IF accepted_key(openai_key, "YOUR_OPENAI_API_KEY_HERE")
              THEN openai_key ELSE proc.openai_key
        ak == IF accepted_key(anthropic_key, "YOUR_ANTHROPIC_API_KEY_HERE")
              THEN anthropic_key ELSE proc.anthropic_key
        pr == IF provider_preference = "anthropic" /\ ak # None THEN Some("anthropic")
              ELSE IF provider_preference = "openai" /\ ok # None THEN Some("openai")
              ELSE IF provider_preference = "auto"
                   THEN (IF ak # None THEN Some("anthropic")
                         ELSE IF ok # None THEN Some("openai") ELSE proc.provider)
              ELSE proc.provider
    IN  [openai_key |-> ok, anthropic_key |-> ak, provider |-> pr]

\* main(), lines 479-484, and test_enhanced.py on a processor of its own.
LoadApiKeys ==
    /\ \E openai_key \in OpenAIKeys, anthropic_key \in AnthropicKeys,
          provider_preference \in Preferences :
         /\ llm_processor' = load_api_keys_direct(llm_processor, openai_key,
                                                  anthropic_key, provider_preference)
         /\ call' = [fn |-> "load_api_keys_direct", fresh |-> llm_processor = SimpleLLMProcessor,
                     openai_key |-> openai_key, anthropic_key |-> anthropic_key,
                     provider_preference |-> provider_preference,
                     provider |-> llm_processor'.provider,
                     result |-> llm_processor'.provider # None]
    /\ UNCHANGED agent

\* processor = SimpleLLMProcessor(): a new object.
NewProcessor ==
    /\ llm_processor # SimpleLLMProcessor
    /\ llm_processor' = SimpleLLMProcessor
    /\ call' = [fn |-> "SimpleLLMProcessor"]
    /\ UNCHANGED agent

\* ---------------------------------------------------------- Message Classifier
SummaryChars == 100

\* A message text, by what the classifier reads of it: len(text) and
\* len(text.strip()).
MessageTexts ==
    {[chars |-> n, stripped |-> n] : n \in Lengths(SummaryChars)}
        \cup {[chars |-> n, stripped |-> 0] : n \in Lengths(SummaryChars)}
        \cup {[chars |-> SummaryChars + 1, stripped |-> SummaryChars - 1]}

\* Mutant: a text of exactly 100 characters gets the ellipsis too.
truncated_summary_from_limit(text) ==
    IF text.chars >= SummaryChars
    THEN [of |-> "text", taken |-> SummaryChars, ellipsis |-> TRUE]
    ELSE [of |-> "text", taken |-> text.chars, ellipsis |-> FALSE]

\* message_text[:100] + '...' if len(message_text) > 100 else message_text
truncated_summary(text) ==
    IF text.chars > SummaryChars
    THEN [of |-> "text", taken |-> SummaryChars, ellipsis |-> TRUE]
    ELSE [of |-> "text", taken |-> text.chars, ellipsis |-> FALSE]

\* The dict of lines 231-239 of simple_llm_processor.py, returned when no provider is available: it has
\* no 'message_type' and no 'key_words' key (None stands for a missing key).
summarize_unavailable(text) ==
    [summary |-> truncated_summary(text), sentiment |-> "neutral", topics |-> <<>>,
     importance |-> "medium", message_type |-> None, key_words |-> None,
     enhanced_by_llm |-> FALSE]

\* The dict of lines 283-293, returned after a failed call.
summarize_fallback(text) ==
    [summary |-> truncated_summary(text), sentiment |-> "neutral", topics |-> <<>>,
     importance |-> "medium", message_type |-> Some("other"), key_words |-> Some(<<>>),
     enhanced_by_llm |-> FALSE]

\* The dict of lines 267-274: the reply's own keys and enhanced_by_llm = True.
summarize_enhanced ==
    [summary |-> [of |-> "reply", taken |-> 0, ellipsis |-> FALSE],
     sentiment |-> "reply", topics |-> <<"reply">>, importance |-> "reply",
     message_type |-> Some("reply"), key_words |-> Some(<<"reply">>),
     enhanced_by_llm |-> TRUE]

\* SimpleLLMProcessor.summarize_message: json.loads of a reply that is no JSON
\* raises JSONDecodeError (line 267), item assignment on a value that is no
\* object raises TypeError (line 268); both end in the fallback dict.
summarize_message(proc, text, reply) ==
    IF ~is_available(proc) \/ text.stripped = 0 THEN summarize_unavailable(text)
    ELSE IF call_llm(proc, reply) = "object" THEN summarize_enhanced
    ELSE summarize_fallback(text)

\* The dict of agent_enhanced.py lines 278-288, built when no provider is
\* available.
basic_analysis(text) ==
    [summary |-> truncated_summary(text), sentiment |-> "neutral", topics |-> <<>>,
     importance |-> "medium", message_type |-> Some("text"), key_words |-> None,
     enhanced_by_llm |-> FALSE]

\* process_message_content(message_text, sender_name) of agent_enhanced.py,
\* with the record it returns written out.
message_analysis(proc, text, reply) ==
    IF text.stripped = 0 THEN None
    ELSE IF is_available(proc) THEN Some(summarize_message(proc, text, reply))
    ELSE Some(basic_analysis(text))

\* Lines 341-348 of handle_new_message: what the call adds to publications.
AppendAnalysis(analysis) == IF analysis # None THEN <<analysis[1]>> ELSE <<>>

CallProcessMessageContent ==
    /\ \E text \in MessageTexts, reply \in Replies :
         call' = [fn |-> "process_message_content", text |-> text, reply |-> reply,
                  available |-> is_available(llm_processor),
                  result |-> message_analysis(llm_processor, text, reply),
                  appended |->
                      AppendAnalysis(message_analysis(llm_processor, text, reply))]
    /\ UNCHANGED <<agent, llm_processor>>

\* ------------------------------------------------------------ Article Resolver
TitleLimit == 200
SummaryLimit == 500

\* What requests.get and the parser give for a URL: the fetch outcome and, for
\* a fetched page, the lengths of the title and of the description found in it
\* (None: nothing found). url is the length of the URL itself, error that of
\* the exception's message.
Pages ==
    [fetch : {"ok"}, url : {20}, error : {0},
     title : {None, Some(TitleLimit), Some(TitleLimit + 1)},
     summary : {None, Some(SummaryLimit), Some(SummaryLimit + 1)}]
    \cup [fetch : {"timeout", "http_error"}, url : {20, TitleLimit}, error : {60},
          title : {None}, summary : {None}]

\* The title and summary of a reply that is a JSON object: within the lengths
\* the prompt asks for (150, 300), or longer than the limits.
ReplyFields ==
    {[title |-> 150, summary |-> 300],
     [title |-> TitleLimit + 1, summary |-> SummaryLimit + 1]}

\* A reply that is no JSON object has no fields.
FieldsOf(reply) ==
    IF reply = "object" THEN ReplyFields ELSE {[title |-> 0, summary |-> 0]}

\* A text field of a record: where its value comes from and its length.
Field(src, len) == [src |-> src, len |-> len]

\* agent_enhanced.py lines 150-218: the dict built from the parsed page.
article_data(page) ==
    [title |-> IF page.title = None THEN Field("Unknown Title", 13)
               ELSE Field("page", page.title[1]),
     summary |-> IF page.summary = None THEN Field("No summary available", 20)
                 ELSE Field("page", page.summary[1]),
     author |-> "page", image |-> "page",
     extraction_method |-> Some("web_scraping"),
     enhanced_by_llm |-> None, category |-> None]

\* agent.py lines 199-209: the dict returned after a failed fetch or parse.
fallback_data(page) ==
    [title |-> Field("Could not extract title", 23),
     summary |-> Field("Could not extract summary", 25),
     author |-> "Unknown Author", image |-> "No image available",
     extraction_method |-> None,
     enhanced_by_llm |-> Some(FALSE), category |-> None]

\* Mutant: the placeholder of agent.py.
error_record_generic(page) == fallback_data(page)

\* agent_enhanced.py lines 231-242: the dict returned from the except branch.
error_record(page) ==
    [title |-> Field("Failed to extract: <url>", 19 + page.url),
     summary |-> Field("Error occurred: <e>", 16 + page.error),
     author |-> "Unknown", image |-> "None",
     extraction_method |-> Some("error"),
     enhanced_by_llm |-> Some(FALSE), category |-> None]

\* Lines 200-211 of simple_llm_processor.py: the reply's fields over the basic ones.
merged(basic_data, fields) ==
    [basic_data EXCEPT !.title = Field("reply", fields.title),
                       !.summary = Field("reply", fields.summary),
                       !.author = "reply",
                       !.category = Some("reply"),
                       !.enhanced_by_llm = Some(TRUE)]

\* Mutant: whatever json.loads accepts is merged.
enhance_article_extraction_unguarded(proc, basic_data, reply, fields) ==
    IF ~is_available(proc) THEN [basic_data EXCEPT !.enhanced_by_llm = Some(FALSE)]
    ELSE IF call_llm(proc, reply) \in {"object", "not_object"}
         THEN merged(basic_data, fields)
    ELSE [basic_data EXCEPT !.enhanced_by_llm = Some(FALSE)]

\* SimpleLLMProcessor.enhance_article_extraction: a reply json.loads rejects
\* raises JSONDecodeError (line 197), .get on a value that is no object raises
\* AttributeError (line 202); both end at lines 222-224.
enhance_article_extraction(proc, basic_data, reply, fields) ==
    IF ~is_available(proc) THEN [basic_data EXCEPT !.enhanced_by_llm = Some(FALSE)]
    ELSE IF call_llm(proc, reply) = "object" THEN merged(basic_data, fields)
    ELSE [basic_data EXCEPT !.enhanced_by_llm = Some(FALSE)]

\* LLMProcessor.enhance_article_extraction of llm_processor.py: is_available is
\* `provider is not None`, and basic_data is returned as it came when it is not.
LLMProcessor_enhance_article_extraction(proc, basic_data, reply, fields) ==
    IF proc.provider = None THEN basic_data
    ELSE IF call_llm(proc, reply) = "object" THEN merged(basic_data, fields)
    ELSE [basic_data EXCEPT !.enhanced_by_llm = Some(FALSE)]

\* extract_article_content(url) of agent_enhanced.py with the record it
\* returns written out: any exception of the fetch ends in the except branch.
article_record(proc, page, reply, fields) ==
    IF page.fetch # "ok" THEN error_record(page)
    ELSE IF is_available(proc)
         THEN enhance_article_extraction(proc, article_data(page), reply, fields)
    ELSE [article_data(page) EXCEPT !.enhanced_by_llm = Some(FALSE)]

\* agent.py lines 174-183: the dict built from the parsed page, cut to length.
basic_data(page) ==
    [title |-> IF page.title = None THEN Field("Article Title Not Found", 23)
               ELSE Field("page", Min(page.title[1], TitleLimit)),
     summary |-> IF page.summary = None THEN Field("No summary available", 20)
                 ELSE Field("page", Min(page.summary[1], SummaryLimit)),
     author |-> "page", image |-> "page",
     extraction_method |-> None,
     enhanced_by_llm |-> None, category |-> None]

\* extract_article_data(url) of agent.py.
extract_article_data(proc, page, reply, fields) ==
    IF page.fetch # "ok" THEN fallback_data(page)
    ELSE IF proc.provider # None
         THEN LLMProcessor_enhance_article_extraction(proc, basic_data(page), reply, fields)
    ELSE [basic_data(page) EXCEPT !.enhanced_by_llm = Some(FALSE)]

\* Lines 254-258 and 322-326 of agent_enhanced.py: what the coordinator adds to
\* publications for the URL.
AppendArticle(record) == <<record>>

CallExtractArticleContent ==
    /\ \E page \in Pages, reply \in Replies : \E fields \in FieldsOf(reply) :
         call' = [fn |-> "extract_article_content", page |-> page, reply |-> reply,
                  fields |-> fields, available |-> is_available(llm_processor),
                  result |-> article_record(llm_processor, page, reply, fields),
                  appended |-> AppendArticle(
                                   article_record(llm_processor, page, reply, fields))]
    /\ UNCHANGED <<agent, llm_processor>>

CallExtractArticleData ==
    /\ \E page \in Pages, reply \in Replies : \E fields \in FieldsOf(reply) :
         call' = [fn |-> "extract_article_data", page |-> page, reply |-> reply,
                  fields |-> fields, available |-> llm_processor.provider # None,
                  result |-> extract_article_data(llm_processor, page, reply, fields)]
    /\ UNCHANGED <<agent, llm_processor>>

\* enhance_article_extraction called on the data of a fetched page, by either
\* processor class.
CallEnhanceArticleExtraction ==
    /\ \E page \in {pg \in Pages : pg.fetch = "ok"}, reply \in Replies,
          class \in {"SimpleLLMProcessor", "LLMProcessor"} : \E fields \in FieldsOf(reply) :
         call' = [fn |-> "enhance_article_extraction", class |-> class,
                  basic_data |-> article_data(page), reply |-> reply, fields |-> fields,
                  available |-> IF class = "SimpleLLMProcessor"
                                THEN is_available(llm_processor)
                                ELSE llm_processor.provider # None,
                  result |-> IF class = "SimpleLLMProcessor"
                             THEN enhance_article_extraction(
                                      llm_processor, article_data(page), reply, fields)
                             ELSE LLMProcessor_enhance_article_extraction(
                                      llm_processor, article_data(page), reply, fields)]
    /\ UNCHANGED <<agent, llm_processor>>

NextHelpers ==
    \/ NewProcessor
    \/ LoadApiKeys
    \/ CallExtractUrls
    \/ CallProcessMessageContent
    \/ CallExtractArticleContent
    \/ CallExtractArticleData
    \/ CallEnhanceArticleExtraction

SpecHelpers == Init /\ [][NextHelpers]_vars

\* ------------------------------------------------ the basic agent (agent.py)
\* What agent.py leaves alone: everything but the store file, the processor
\* object and the record of the latest call.
beside_store == <<now, skew, history, timestamp_data, timestamp_file, pc, runs,
                  messages_to_process, processed_count, pending, crashed, last, scan,
                  given, prior>>

\* LLMProcessor.is_available (llm_processor.py lines 178-180).
LLMProcessor_is_available(proc) == proc.provider # None

\* The entries agent.py appends: article_data, which has a 'url' key, and
\* message_entry (lines 419-426), which has none.
article_entry(url) == [kind |-> "article", url |-> url, method |-> "basic", msg |-> 0]
message_entry == [kind |-> "analysis", url |-> "", method |-> "llm", msg |-> 0]

has_url(pub) == pub.kind = "article"

MinOf(S) == CHOOSE x \in S : \A y \in S : x <= y

\* Line 349, any(pub['url'] == url for pub in publications): the entries are
\* read in order up to the first match; an entry without 'url' read on the
\* way raises KeyError.
existing(publications, url) ==
    LET hit == {j \in 1..Len(publications) :
                   has_url(publications[j]) /\ publications[j].url = url}
        nokey == {j \in 1..Len(publications) : ~has_url(publications[j])}
    IN  IF hit # {} /\ (nokey = {} \/ MinOf(hit) < MinOf(nokey)) THEN "yes"
        ELSE IF nokey # {} THEN "KeyError"
        ELSE "no"

\* The operator's answers for one article: Accept, Reject, Modify and then
\* Y, Modify and then anything else.
Decisions == {"A", "R", "MY", "MN"}

\* Mutant: a modified article is saved whatever the confirmation.
confirmed_unasked(decision) == decision # "R"

\* Lines 361-372: the article goes on to be saved.
confirmed(decision) == decision \in {"A", "MY"}

\* save_publications of agent.py (lines 104-107) has no try: a failing open
\* raises and leaves the file as it was.
agent_save_raises(disk) == disk # "ok"

\* The state of process_urls_in_message before its loop (line 343).
UrlLoopStart(f, urls) ==
    [file |-> f, publications |-> load_existing_publications(f),
     outcomes |-> [i \in 1..Len(urls) |-> "unreached"], error |-> "none", writes |-> 0]

\* The loop of lines 345-380 from the i-th URL on.
RECURSIVE UrlLoop(_, _, _, _, _)
UrlLoop(st, urls, dec, disk, i) ==
    IF i > Len(urls) THEN st
    ELSE IF existing(st.publications, urls[i]) = "KeyError"
    THEN [st EXCEPT !.error = "KeyError", !.outcomes[i] = "raised"]
    ELSE IF existing(st.publications, urls[i]) = "yes"
    THEN UrlLoop([st EXCEPT !.outcomes[i] = "skipped"], urls, dec, disk, i + 1)
    ELSE IF ~confirmed(dec[i])
    THEN UrlLoop([st EXCEPT !.outcomes[i] = "declined"], urls, dec, disk, i + 1)
    ELSE IF agent_save_raises(disk)
    THEN [st EXCEPT !.error = "OSError", !.outcomes[i] = "raised",
                    !.publications = Append(@, article_entry(urls[i]))]
    ELSE UrlLoop([st EXCEPT !.outcomes[i] = "saved",
                            !.publications = Append(@, article_entry(urls[i])),
                            !.file = FileAfterSave(st.file,
                                         Append(st.publications, article_entry(urls[i])),
                                         "ok"),
                            !.writes = @ + 1],
                 urls, dec, disk, i + 1)

\* process_urls_in_message(urls, message_text, sender_name) of agent.py.
agent_process_urls_in_message(f, urls, dec, disk) ==
    UrlLoop(UrlLoopStart(f, urls), urls, dec, disk, 1)

\* What becomes of the question of line 412: it is not asked (the analysis
\* has neither importance high nor topics), or the operator types Y or not.
Answers == {"not_asked", "N", "Y"}

\* process_message_content of agent.py, lines 410-432.
agent_process_message_content(st, answer, disk) ==
    IF answer # "Y" THEN st
    ELSE IF agent_save_raises(disk) THEN [st EXCEPT !.error = "OSError"]
    ELSE [st EXCEPT !.file = FileAfterSave(st.file,
                                  Append(load_existing_publications(st.file), message_entry),
                                  "ok"),
                    !.writes = @ + 1]

\* handle_new_message(event) of agent.py, lines 310-335: an exception of
\* process_urls_in_message ends the handler; substantial is
\* len(message_text.strip()) > 20.
agent_handle_new_message(f, proc, urls, substantial, dec, answer, disk) ==
    LET st == IF urls # <<>> THEN agent_process_urls_in_message(f, urls, dec, disk)
              ELSE UrlLoopStart(f, urls)
    IN  IF st.error # "none" THEN st
        ELSE IF LLMProcessor_is_available(proc) /\ substantial
             THEN agent_process_message_content(st, answer, disk)
        ELSE st

\* The URL lists of a message: the words that start with a scheme (line 327).
AgentUrls == {<<>>, <<"a">>, <<"b">>, <<"a", "b">>, <<"a", "a">>}

\* The rest of a message: a text of at most 20 characters, for which nothing
\* is asked, or a longer one.
AgentTexts ==
    {[substantial |-> FALSE, answer |-> "not_asked"]}
        \cup [substantial : {TRUE}, answer : Answers]

\* main() of agent.py, lines 450-454: what load_api_keys_direct of
\* LLMProcessor selects depends on the keys and on the client libraries.
AgentMain ==
    /\ \E provider \in {None, Some("anthropic"), Some("openai")} :
         llm_processor' = [SimpleLLMProcessor EXCEPT !.provider = provider]
    /\ llm_processor' # llm_processor
    /\ call' = [fn |-> "agent.main"]
    /\ UNCHANGED <<beside_store, json_file>>

\* The registered handler (lines 478-480) takes one message.
AgentHandle ==
    /\ Len(load_existing_publications(json_file)) < MaxEntries
    /\ \E urls \in AgentUrls, text \in AgentTexts, disk \in {"ok", "unwritable"} :
         \E dec \in [1..Len(urls) -> Decisions] :
            LET st == agent_handle_new_message(json_file, llm_processor, urls,
                                               text.substantial, dec, text.answer, disk)
            IN  /\ json_file' = st.file
                /\ call' = [fn |-> "agent.handle_new_message", urls |-> urls,
                            dec |-> dec, outcomes |-> st.outcomes,
                            error |-> st.error, writes |-> st.writes]
    /\ UNCHANGED <<beside_store, llm_processor>>

NextBasic == AgentMain \/ AgentHandle

SpecBasic == Init /\ [][NextBasic]_vars

\* =================================================================== claims
Pubs == json_file.pubs

Articles(p) == {i \in 1..Len(p) : p[i].kind = "article"}

Ascending(s) == \A i \in 1..(Len(s) - 1) : s[i] <= s[i + 1]

\* The instant a caller's timestamp denotes, naive ones read as UTC.
UtcInstant(d) == IF d.tz = None THEN d.wall ELSE d.wall - d.tz[1]

\* C1: when the store write of an accepted message fails, the chat's
\* checkpoint keeps its previous value.
C1_CheckpointOnlyAfterPersist ==
    last.wrote = "fail" => last.cp_after = last.cp_before

\* C2: no two article records of the Publication Store share a url.
C2_UrlUnique ==
    \A i, j \in Articles(Pubs) : i # j => Pubs[i].url # Pubs[j].url

\* C3: the stored checkpoint of the chat never decreases.
C3_CheckpointMonotone ==
    [][Checkpoint(timestamp_data') >= Checkpoint(timestamp_data)]_vars

\* C4: should_process(t, chat) is true exactly when the chat has no checkpoint
\* or t is strictly later than the checkpoint T, naive timestamps read as UTC;
\* it is false for every t <= T.
C4_ShouldProcess ==
    \A c \in ChatIds, d \in Datetimes :
        should_process_message(timestamp_data, d, c)
            <=> \/ given[KeyOf(c)] = None
                \/ UtcInstant(d) > UtcInstant(given[KeyOf(c)][1])

\* C4 witness: a checkpoint set from a naive timestamp, and a +01:00 message
\* timestamp of the same instant, which is not processed.
C4_Witness ==
    /\ given["12345"] # None
    /\ given["12345"][1].tz = None
    /\ \E d \in Datetimes :
        /\ d.tz = Some(1)
        /\ UtcInstant(d) = UtcInstant(given["12345"][1])
        /\ ~should_process_message(timestamp_data, d, "12345")
    /\ \E d \in Datetimes : should_process_message(timestamp_data, d, "12345")

C6_BackfillFinalCheckpoint ==
    skew = 0 =>
        /\ Ascending(scan.fed)
        /\ (scan.state = "completed" /\ scan.fed # <<>> /\ scan.clean)
            => scan.end_cp = scan.fed[Len(scan.fed)]

\* C7: a backfill interrupted while paging the history leaves the checkpoint
\* at its pre-scan value, never at the time of the scan.
C7_InterruptedBackfill ==
    (skew = 0 /\ scan.state = "interrupted") => scan.end_cp = scan.cp0

\* C8: the scan collects exactly the messages among the newest Limit of the
\* history whose sent_at is strictly later than the checkpoint held at scan
\* start (all of them when there was none), each once.
C8_Collected ==
    (pc = "process" /\ processed_count = 0) =>
        /\ {messages_to_process[i].id : i \in 1..Len(messages_to_process)}
             = {i \in 1..scan.hlen :
                   /\ i > scan.hlen - Limit
                   /\ (scan.cp0 = 0 \/ history[i].date > scan.cp0)}
        /\ \A i, j \in 1..Len(messages_to_process) :
             i # j => messages_to_process[i].id # messages_to_process[j].id

\* C8 witness: a scan over a history longer than Limit, with a checkpoint,
\* that collected the newest message and left out an older one of the page.
C8_Witness ==
    /\ pc = "process"
    /\ processed_count = 0
    /\ scan.hlen > Limit
    /\ scan.cp0 # 0
    /\ Len(messages_to_process) = 1
    /\ messages_to_process[1].id = scan.hlen
    /\ history[scan.hlen - 1].date <= scan.cp0

\* C9: a completed scan leaves a checkpoint, and a checkpoint that existed
\* before the end-of-scan touch keeps its value (synchronised clocks).
C9_TouchOnlyIfAbsent ==
    (skew = 0 /\ scan.state = "completed") =>
        /\ scan.end_cp # 0
        /\ scan.pre_touch # 0 => scan.end_cp = scan.pre_touch

\* C10: reprocessing, after a restart, a message whose records were persisted
\* before the process died adds no article record.
C10_ReprocessNoNewArticle ==
    (last.outcome = "accepted" /\ last.redo) => last.articles = 0

\* A step in which handle_new_message ran to its end for the message
\* history[last'.id], from the backfill batch or from a live event.
Handled ==
    \/ pc = "live" /\ pc' = "live" /\ Len(pending') < Len(pending)
    \/ /\ pc = "process" /\ pc' = "process"
       /\ Len(messages_to_process') < Len(messages_to_process)

\* C11: a message for which should_process is false ends Filtered with no side
\* effect: the Publication Store and every chat's checkpoint are unchanged, and
\* neither the Article Resolver nor the Message Classifier is invoked.
C11_FilteredNoEffect ==
    [][(/\ Handled
        /\ last'.outcome # "failed"
        /\ ~should_process_message(timestamp_data, Utc(last'.date), TELEGRAM_CHAT_ID))
       => /\ last'.outcome = "filtered"
          /\ json_file' = json_file
          /\ timestamp_data' = timestamp_data
          /\ last'.resolver = 0
          /\ ~last'.classifier]_vars

\* C11 witness: a message carrying a link was filtered while the store held
\* records and the chat had a checkpoint.
C11_Witness ==
    /\ last.outcome = "filtered"
    /\ Len(history[last.id].urls) > 0
    /\ Len(Pubs) > 0
    /\ last.cp_before > 0
    /\ last.cp_after = last.cp_before
    /\ last.resolver = 0
    /\ ~last.classifier

\* C12: replay idempotence. A message handed to the coordinator again, right
\* after its first processing was accepted and left the checkpoint at its
\* sent_at, adds no record: the store and the checkpoint after the second
\* delivery are those after the first.
C12_ReplayIdempotent ==
    [][(/\ Handled
        /\ last.outcome = "accepted"
        /\ last'.id = last.id
        /\ last.cp_after = last.date
        /\ Checkpoint(timestamp_data) = last.date)
       => /\ last'.outcome # "accepted"
          /\ json_file' = json_file
          /\ timestamp_data' = timestamp_data]_vars

\* C12 witness: the chat's only message, whose records are in the store, was
\* delivered again and filtered by the checkpoint its first processing set.
C12_Witness ==
    /\ Len(history) = 1
    /\ last.id = 1
    /\ last.outcome = "filtered"
    /\ last.cp_before = last.date
    /\ Len(Pubs) > 0
    /\ \A i \in 1..Len(Pubs) : Pubs[i].msg = 1
    /\ Checkpoint(timestamp_data) = last.date

\* The URLs of message m that have no article record in the store p.
NewUrls(m, p) ==
    {m.urls[i] : i \in 1..Len(m.urls)} \ {p[j].url : j \in Articles(p)}

\* C13: the Article Resolver is never invoked for a URL that already has an
\* article record in the store, nor twice for one URL within a message: a
\* handler run makes at most one call per URL of the message absent from the
\* store it found.
C13_ResolverOncePerNewUrl ==
    [][Handled =>
        last'.resolver <= Cardinality(NewUrls(history[last'.id], json_file.pubs))]_vars

IsPrefix(s, t) == Len(s) <= Len(t) /\ SubSeq(t, 1, Len(s)) = s

\* The number of records handling message m produces: one per URL token and
\* one analysis record when the text is not blank.
Produced(m) == Len(m.urls) + (IF m.body THEN 1 ELSE 0)

\* C14: persistence of one message's batch is all-or-nothing. After a handler
\* run, also one whose write failed part-way, the records readable from the
\* store file are those that were there before, followed by either all of the
\* records produced for the message or none of them.
C14_AllOrNothing ==
    [][Handled =>
        /\ IsPrefix(json_file.pubs, json_file'.pubs)
        /\ Len(json_file'.pubs) \in
              {Len(json_file.pubs),
               Len(json_file.pubs) + Produced(history[last'.id])}]_vars

\* C15: an exception raised while one message is processed stays inside
\* handle_new_message: the caller goes on where it was, the rest of the
\* backfill batch is still queued for the coordinator, and so is every other
\* pending live event.
C15_FailureContained ==
    [][(last' # last /\ last'.outcome = "failed") =>
        /\ pc' = pc
        /\ pc = "process" =>
              /\ messages_to_process' = Tail(messages_to_process)
              /\ pending' = pending
        /\ pc = "live" =>
              /\ Len(pending') = Len(pending) - 1
              /\ \A m \in {pending[i] : i \in 1..Len(pending)} :
                    m.id # last'.id => \E j \in 1..Len(pending') : pending'[j] = m]_vars

\* C15 witness: the first message of a backfill batch failed with an exception
\* (the checkpoint did not move and nothing was written), and the second one
\* was then handled and accepted.
C15_Witness ==
    /\ pc = "process"
    /\ Len(scan.fed) = 2
    /\ ~scan.clean
    /\ last.outcome = "accepted"
    /\ last.wrote = "ok"
    /\ last.cp_before = scan.cp0

\* C16: messages are accepted in the order they were delivered: the handler of
\* a newer message never moves the checkpoint past an older message whose own
\* handler has not yet passed the filter, so no message is filtered by a
\* checkpoint later than its own sent_at.
C16_NoOvertaking ==
    last.outcome = "filtered" => last.cp_before <= last.date

\* C17: records appear in the store in the order their messages were
\* accepted: each run that writes the store leaves the records of earlier
\* acceptances in front, in their order, and the records of the message just
\* accepted behind all of them.
C17_RecordsInAcceptanceOrder ==
    [][(last' # last /\ last'.wrote = "ok") =>
        \E k \in 0..Len(json_file'.pubs) :
            /\ SubSeq(json_file'.pubs, 1, k) \in {json_file.pubs, <<>>}
            /\ Len(json_file'.pubs) - k = Produced(history[last'.id])
            /\ \A i \in (k + 1)..Len(json_file'.pubs) :
                  json_file'.pubs[i].msg = last'.id]_vars

\* C17 witness: the store holds the records of two messages, those of the one
\* accepted first before those of the one accepted last.
C17_Witness ==
    /\ last.outcome = "accepted"
    /\ last.wrote = "ok"
    /\ Len(Pubs) >= 2
    /\ Pubs[1].msg # last.id
    /\ Pubs[Len(Pubs)].msg = last.id
    /\ \A i, j \in 1..Len(Pubs) :
          (Pubs[i].msg # last.id /\ Pubs[j].msg = last.id) => i < j

\* C18: the store is append-only: after every successful update by the
\* coordinator the previous store sequence is a prefix of the new one.
C18_AppendOnly ==
    [][(last' # last /\ last'.wrote = "ok") =>
        IsPrefix(json_file.pubs, json_file'.pubs)]_vars

\* C18 witness: a successful update of a store that already held records, by
\* a message that produced two article records and an analysis record.
C18_Witness ==
    /\ last.wrote = "ok"
    /\ json_file.status = "valid"
    /\ Produced(history[last.id]) = 3
    /\ Len(Pubs) > 3

\* The file is damaged as far as chat_id is concerned: it is missing,
\* unreadable or corrupt, or holds for the chat's key a value that is no
\* parsable timestamp.
DamagedFor(chat_id) ==
    \/ timestamp_file # "ok"
    \/ /\ KeyOf(chat_id) \in DOMAIN timestamp_data
       /\ timestamp_data[KeyOf(chat_id)] \in {Unparsable, NotAString}

\* C19: a Checkpoint Store whose backing file is missing, unreadable, corrupt
\* or holds an unparsable timestamp for the chat behaves as having no
\* checkpoint: get returns absent, should_process is true for every message
\* timestamp, and neither operation raises.
C19_DamagedReadsAbsent ==
    \A c \in ChatIds :
        DamagedFor(c) =>
            LET data == load_timestamp_data(timestamp_file, timestamp_data) IN
            /\ ~get_last_check_timestamp_raises(timestamp_file, timestamp_data, c)
            /\ ~should_process_message_raises(timestamp_file, timestamp_data, c)
            /\ get_last_check_timestamp(data, c) = None
            /\ \A d \in Datetimes : should_process_message(data, d, c)

\* C20: a corrupted or missing Publication Store file is read as the empty
\* collection and is never fatal: a message that passes the filter while the
\* file is damaged is still processed, its records are what the store then
\* holds when the write succeeds, and its checkpoint is advanced.
C20_DamagedStoreNotFatal ==
    [][(/\ last' # last
        /\ json_file.status # "valid"
        /\ last'.outcome # "filtered"
        /\ last'.stage \notin {"sender", "filter"})
       => /\ last'.outcome \in {"accepted", "died"}
          /\ last'.wrote = "ok" =>
                /\ json_file'.status = "valid"
                /\ Len(json_file'.pubs) = Produced(history[last'.id])
                /\ \A i \in 1..Len(json_file'.pubs) : json_file'.pubs[i].msg = last'.id
          /\ last'.outcome = "accepted" => last'.cp_after = last'.date]_vars

\* C21: after set(chat_key, t) a get(chat_key) returns the instant t as a
\* timezone-aware timestamp, whatever was stored before, a later instant
\* included.
C21_SetGetRoundTrip ==
    \A c \in ChatIds :
        (timestamp_file = "ok" /\ given[KeyOf(c)] # None) =>
            LET got == get_last_check_timestamp(
                           load_timestamp_data(timestamp_file, timestamp_data), c) IN
            /\ ~get_last_check_timestamp_raises(timestamp_file, timestamp_data, c)
            /\ got # None
            /\ got[1].tz # None
            /\ Instant(got[1]) = UtcInstant(given[KeyOf(c)][1])

\* C21 witness: the latest set of the chat's key replaced a stored instant by
\* an older one, and get returns the older one.
C21_Witness ==
    /\ timestamp_file = "ok"
    /\ prior.key = TELEGRAM_CHAT_ID
    /\ prior.later
    /\ given[TELEGRAM_CHAT_ID] # None
    /\ Checkpoint(timestamp_data) = UtcInstant(given[TELEGRAM_CHAT_ID][1])
\* The records of kind k among the positions I of the list p.
OfKind(p, I, k) == {i \in I : p[i].kind = k}

ValidCredential(key) ==
    key # None /\ key[1] \notin
        {"", "None", "YOUR_OPENAI_API_KEY_HERE", "YOUR_ANTHROPIC_API_KEY_HERE",
         "OPENAI_API_KEY_PLACEHOLDER"}

\* C28: the provider selected is the explicitly configured one when it has a
\* valid credential, otherwise the first of anthropic, openai that has one; a
\* provider is selected whenever a valid credential was given and none only
\* when there is no valid credential.
C28_ProviderSelection ==
    (call.fn = "load_api_keys_direct" /\ call.fresh) =>
        LET vo == ValidCredential(call.openai_key)
            va == ValidCredential(call.anthropic_key)
            expected ==
                IF call.provider_preference = "anthropic" /\ va THEN Some("anthropic")
                ELSE IF call.provider_preference = "openai" /\ vo THEN Some("openai")
                ELSE IF va THEN Some("anthropic")
                ELSE IF vo THEN Some("openai")
                ELSE None
        IN  /\ call.provider = expected
            /\ call.result <=> (vo \/ va)
\* The whitespace-separated words of a text.
RECURSIVE Words(_)
Words(s) ==
    IF s = <<>> THEN <<>>
    ELSE LET k == Run(s, 1, {c \in {s[i] : i \in 1..Len(s)} : c # " "}) IN
         IF k = 0 THEN Words(Tail(s))
         ELSE <<SubSeq(s, 1, k)>> \o Words(SubSeq(s, k + 1, Len(s)))

\* The URL tokens of a text: its words made of a scheme and something after it.
UrlTokens(text) ==
    IF text = None THEN <<>>
    ELSE SelectSeq(Words(text[1]), LAMBDA w : Len(w) >= 2 /\ w[1] \in Schemes)

\* C29: the extractor returns the http/https URL tokens of the text in
\* first-seen order, duplicates kept, and the empty sequence for a missing,
\* empty or URL-free text.
C29_ExtractorReturnsUrlTokens ==
    call.fn = "extract_urls_from_text" => call.result = UrlTokens(call.text)
\* C27: a failure to write an article's ODT file is logged and nothing more:
\* the handler goes on, every article of the message and its analysis are
\* produced and persisted, and the checkpoint is advanced.
C27_OdtFailureContinues ==
    [][(last' # last /\ last'.odt_failed) =>
        LET m == history[last'.id] IN
        /\ last'.outcome \in {"accepted", "died"}
        /\ last'.resolver = Len(m.urls)
        /\ last'.classifier
        /\ last'.wrote = "ok" =>
              Len(json_file'.pubs)
                  = Len(load_existing_publications(json_file)) + Produced(m)
        /\ last'.outcome = "accepted" => Checkpoint(timestamp_data') = m.date]_vars

\* C27 witness: the ODT file of one of a message's two articles could not be
\* written; both articles and the analysis are in the store and the
\* checkpoint is the message's date.
C27_Witness ==
    /\ last.odt_failed
    /\ last.outcome = "accepted"
    /\ last.wrote = "ok"
    /\ last.articles = 2
    /\ Len(Pubs) >= 3
    /\ Pubs[Len(Pubs)].kind = "analysis"
    /\ Checkpoint(timestamp_data) = last.date
\* The summary the truncation rule gives: the first 100 characters and "..."
\* for a text longer than 100, else the whole text.
RuleSummary(text) ==
    IF text.chars > 100 THEN [of |-> "text", taken |-> 100, ellipsis |-> TRUE]
    ELSE [of |-> "text", taken |-> text.chars, ellipsis |-> FALSE]

\* C23 as stated: with no enrichment service configured every accepted
\* message yields an analysis record with enhanced = false and the summary of
\* the truncation rule.
C23_EveryMessageAnalysed ==
    (call.fn = "process_message_content" /\ ~call.available) =>
        /\ Len(call.appended) = 1
        /\ ~call.appended[1].enhanced_by_llm
        /\ call.appended[1].summary = RuleSummary(call.text)

\* C23, amended: with no enrichment service configured every accepted message
\* whose text is not blank yields one analysis record with enhanced = false
\* and the summary of the truncation rule; a blank text yields none.
C23_FallbackCompleteness ==
    (call.fn = "process_message_content" /\ ~call.available) =>
        IF call.text.stripped = 0 THEN call.appended = <<>>
        ELSE /\ Len(call.appended) = 1
             /\ ~call.appended[1].enhanced_by_llm
             /\ call.appended[1].summary = RuleSummary(call.text)

\* C23 witness: without a service, a text of 101 characters got a record whose
\* summary is cut and marked.
C23_Witness ==
    /\ call.fn = "process_message_content"
    /\ ~call.available
    /\ call.text.chars = 101
    /\ Len(call.appended) = 1
    /\ call.appended[1].summary.ellipsis

\* C24: without a service, after a failed call and after a malformed reply the
\* classifier returns the same fallback record: sentiment neutral, no topics,
\* importance medium, message_type other, summary by the truncation rule.
C24_OneFallbackRecord ==
    (/\ call.fn = "process_message_content"
     /\ call.text.stripped > 0
     /\ ~call.available \/ call.reply # "object") =>
        /\ call.result # None
        /\ call.result[1].sentiment = "neutral"
        /\ call.result[1].topics = <<>>
        /\ call.result[1].importance = "medium"
        /\ call.result[1].message_type = Some("other")
        /\ call.result[1].summary = RuleSummary(call.text)
        /\ ~call.result[1].enhanced_by_llm

C26_EnrichmentFailureKeepsCascade ==
    (/\ call.fn = "enhance_article_extraction"
     /\ call.available
     /\ call.reply # "object") =>
        /\ call.result.title = call.basic_data.title
        /\ call.result.summary = call.basic_data.summary
        /\ call.result.author = call.basic_data.author
        /\ call.result.image = call.basic_data.image
        /\ call.result.enhanced_by_llm = Some(FALSE)
        /\ call.result.category = None

\* C26 witness: the service answered JSON that is no object, and the record
\* came back with the scraped title.
C26_Witness ==
    /\ call.fn = "enhance_article_extraction"
    /\ call.class = "SimpleLLMProcessor"
    /\ call.available
    /\ call.reply = "not_object"
    /\ call.result.title.src = "page"

\* C30: every article record of the resolver has a title of at most 200 and a
\* summary of at most 500 characters, on the scraped, the enriched and the
\* failure path.
C30_FieldsWithinLimits ==
    call.fn \in {"extract_article_content", "extract_article_data"} =>
        /\ call.result.title.len <= 200
        /\ call.result.summary.len <= 500

\* C31: equal timestamps are not reprocessed. When the handler accepted a
\* message and is next given another message of the same sent_at, in the same
\* backfill batch or as the next live event, the second one is filtered: the
\* store is left as it is and neither the resolver nor the classifier runs.
C31_EqualTimestampFiltered ==
    [][(/\ Handled
        /\ last.outcome = "accepted"
        /\ Checkpoint(timestamp_data) = last.cp_after
        /\ last'.id # last.id
        /\ last'.date = last.date
        /\ last'.outcome # "failed")
       => /\ last'.outcome = "filtered"
          /\ json_file' = json_file
          /\ timestamp_data' = timestamp_data
          /\ last'.resolver = 0
          /\ ~last'.classifier]_vars

\* C31 witness: one backfill batch held two messages of the same sent_at,
\* both with text; the store holds the records of the first and none of the
\* second, which was filtered.
C31_Witness ==
    /\ pc = "process"
    /\ Len(scan.fed) = 2
    /\ scan.fed[1] = scan.fed[2]
    /\ last.id = 2
    /\ last.outcome = "filtered"
    /\ Produced(history[1]) > 0
    /\ Produced(history[2]) > 0
    /\ Len(Pubs) = Produced(history[1])
    /\ \A i \in 1..Len(Pubs) : Pubs[i].msg = 1

\* C32: an accepted message that yields no record (no URL, text blank) leaves
\* the Publication Store file as it is, with no store write attempted, and
\* the chat's checkpoint becomes the message's sent_at.
C32_EmptyMessageAdvances ==
    [][(/\ last' # last
        /\ last'.outcome = "accepted"
        /\ Produced(history[last'.id]) = 0)
       => /\ last'.wrote = "none"
          /\ json_file' = json_file
          /\ Checkpoint(timestamp_data') = last'.date]_vars

\* C32 witness: a message without URL and text was accepted while the store
\* held records and the chat had an older checkpoint.
C32_Witness ==
    /\ last.outcome = "accepted"
    /\ Produced(history[last.id]) = 0
    /\ last.wrote = "none"
    /\ Len(Pubs) > 0
    /\ last.cp_before > 0
    /\ last.cp_before < last.date
    /\ Checkpoint(timestamp_data) = last.date

\* The records of message id that the store file holds.
RecordsOf(id) == {i \in 1..Len(Pubs) : Pubs[i].msg = id}

\* C33: at-least-once. The message the coordinator was last given, when its
\* sent_at is not later than the chat's checkpoint, has all of its records in
\* the store file; a message whose handling failed or whose store write
\* failed stays newer than the checkpoint.
C33_AtLeastOnce ==
    (last.id # 0 /\ last.date <= Checkpoint(timestamp_data)) =>
        Cardinality(RecordsOf(last.id)) >= Produced(history[last.id])

\* C34: no message is skipped by the backfill limit. After a completed scan
\* every message that was in the history when the scan paged it, with sent_at
\* later than the pre-scan checkpoint and not later than the new checkpoint,
\* was handed to the coordinator.
C34_NoneSkippedByLimit ==
    scan.state = "completed" =>
        \A i \in 1..scan.hlen :
            (history[i].date > scan.cp0 /\ history[i].date <= scan.end_cp)
                => \E j \in 1..Len(scan.ids) : scan.ids[j] = i

\* C35: the end-of-scan checkpoint never moves past a message that arrived
\* while the backfill was running and so was not handed to the coordinator:
\* when the scan ends, every message posted after the history was paged is
\* still newer than the checkpoint, so that the next backfill collects it.
C35_ArrivalDuringScanKept ==
    [][(pc = "process" /\ pc' = "live") =>
        \A i \in (scan.hlen + 1)..Len(history) :
            history[i].date > Checkpoint(timestamp_data')]_vars

\* What a caller reads as the checkpoint of chat_id: the value get returns, or
\* that get raises.
Stored(file, data, chat_id) ==
    [raises |-> get_last_check_timestamp_raises(file, data, chat_id),
     value |-> IF get_last_check_timestamp_raises(file, data, chat_id) THEN None
               ELSE get_last_check_timestamp(load_timestamp_data(file, data), chat_id)]

\* C36: frame of the Checkpoint Store. update_last_check_timestamp(k, t) and
\* reset_timestamps(k) change the entry of key k only: the checkpoint read
\* for every other key is the same before and after the call.
C36_OtherKeysUnchanged ==
    [][\A c \in ChatIds :
          (\/ \E ts \in {None} \cup {Some(d) : d \in Datetimes} : TrackerUpdateOf(c, ts)
           \/ c # "" /\ TrackerResetOf(c))
          => \A o \in ChatIds :
                KeyOf(o) # KeyOf(c) =>
                    Stored(timestamp_file', timestamp_data', o)
                        = Stored(timestamp_file, timestamp_data, o)]_vars

\* C36 witness: the three keys hold three different instants, each the one
\* last set for it, and the key set last replaced a later instant.
C36_Witness ==
    /\ timestamp_file = "ok"
    /\ prior.later
    /\ \A k \in Keys : given[k] # None
    /\ \A c \in ChatIds :
          /\ Stored(timestamp_file, timestamp_data, c).value # None
          /\ Instant(Stored(timestamp_file, timestamp_data, c).value[1])
                = UtcInstant(given[KeyOf(c)][1])
    /\ \A c, o \in ChatIds :
          c # o => UtcInstant(given[KeyOf(c)][1]) # UtcInstant(given[KeyOf(o)][1])

\* C37: after any sequence of load_api_keys_direct calls on one
\* SimpleLLMProcessor the selected provider has its own credential set,
\* is_available() is true only then, and no placeholder, empty or "None" key
\* is stored as a credential.
C37_ProviderHasCredential ==
    /\ llm_processor.provider \in {None, Some("anthropic"), Some("openai")}
    /\ llm_processor.provider = Some("anthropic") => llm_processor.anthropic_key # None
    /\ llm_processor.provider = Some("openai") => llm_processor.openai_key # None
    /\ is_available(llm_processor) =>
          \/ llm_processor.provider = Some("anthropic") /\ llm_processor.anthropic_key # None
          \/ llm_processor.provider = Some("openai") /\ llm_processor.openai_key # None
    /\ llm_processor.openai_key # None => ValidCredential(llm_processor.openai_key)
    /\ llm_processor.anthropic_key # None => ValidCredential(llm_processor.anthropic_key)

\* A step of the basic agent's handler, whose record is call'.
AgentHandled ==
    call'.fn = "agent.handle_new_message" /\ (call' # call \/ json_file' # json_file)

\* The URL of position i had an article record when its turn came: in the
\* store the handler loaded, or saved for an earlier URL of the message.
HadRecord(pubs, c, i) ==
    \/ \E j \in 1..Len(pubs) : pubs[j].kind = "article" /\ pubs[j].url = c.urls[i]
    \/ \E j \in 1..(i - 1) : c.urls[j] = c.urls[i] /\ c.outcomes[j] = "saved"

\* C38: in the basic agent process_urls_in_message completes without raising
\* and skips exactly the URLs that already have an article record, whatever
\* the agent has written to the store before, message analyses included.
C38_UrlsIngestedDespiteAnalyses ==
    [][(AgentHandled /\ call'.error # "OSError") =>
        /\ call'.error = "none"
        /\ \A i \in 1..Len(call'.urls) :
              call'.outcomes[i] = "skipped"
                  <=> HadRecord(load_existing_publications(json_file), call', i)]_vars

\* The positions of the message's URLs with the given outcome.
WithOutcome(c, o) == {i \in 1..Len(c.urls) : c.outcomes[i] = o}

\* C39: in the basic agent an article record is appended to the store only
\* for a URL the operator accepted, or modified and confirmed with Y; a
\* rejected or unconfirmed article is not saved, a run that saves nothing
\* leaves the store file unchanged, and each saved URL adds exactly one
\* article record and one store write.
C39_SavedOnlyWhenAccepted ==
    [][AgentHandled =>
        LET before == load_existing_publications(json_file)
            after == load_existing_publications(json_file')
            saved == WithOutcome(call', "saved")
        IN  /\ \A i \in saved : call'.dec[i] \in {"A", "MY"}
            /\ \A i \in 1..Len(call'.urls) :
                  call'.dec[i] \in {"R", "MN"} =>
                      call'.outcomes[i] \in {"declined", "skipped", "unreached", "raised"}
            /\ Cardinality(Articles(after)) = Cardinality(Articles(before)) + Cardinality(saved)
            /\ \A i \in saved :
                  Cardinality({j \in Articles(after) : after[j].url = call'.urls[i]}) = 1
            /\ call'.writes \in {Cardinality(saved), Cardinality(saved) + 1}
            /\ call'.writes = Cardinality(saved) =>
                  Len(after) = Len(before) + Cardinality(saved)
            /\ call'.writes = 0 => json_file' = json_file
            /\ IsPrefix(before, after)]_vars

\* C39 witness: of a message's two URLs the operator rejected the first and
\* modified and confirmed the second; the store got one write and holds a
\* record of the second URL and none of the first.
C39_Witness ==
    /\ call.fn = "agent.handle_new_message"
    /\ call.urls = <<"a", "b">>
    /\ call.dec = <<"R", "MY">>
    /\ call.outcomes = <<"declined", "saved">>
    /\ call.writes = 1
    /\ Pubs = <<article_entry("b")>>
====
